---- MODULE Spec2Model ----
(***************************************************************************)
(* A model of LocalFileName (bin/local_file_manager.py): a record of named *)
(* attributes with update, get_path and set_default_config, together with  *)
(* a caller that owns a mutable sculpt_attrs dict it may pass in.           *)
(*                                                                         *)
(* Python values are tagged records, floats are integers in thousandths    *)
(* (0.8 is 800), strings are TLA+ strings, and a Python list lives in the   *)
(* heap and is named by its index, so that two dicts can share one list.   *)
(***************************************************************************)
EXTENDS Integers, Sequences, FiniteSets, TLC

VARIABLES rec, heap, caller, log

vars == <<rec, heap, caller, log>>

(* ------------------------------ bounds -------------------------------- *)

\* Calls and caller mutations in one behaviour.
MaxCalls == 2

\* Heap slots for list objects (the record and the caller each hold at most one).
MaxLists == 2

\* Longest 'ells' list the caller grows by append.
MaxEllsLen == 4

(* ------------------------------ values -------------------------------- *)

NoneV == [t |-> "none"]

StrV(s) == [t |-> "str", v |-> s]

IntV(n) == [t |-> "int", v |-> n]

FloatV(m) == [t |-> "float", v |-> m]

BoolV(b) == [t |-> "bool", v |-> b]

TupleV(a, b) == [t |-> "tuple", v |-> <<a, b>>]

\* A sculpt_attrs dict; ells is the heap index of its list object.
DictV(ells, kobsmax, ktmax, capsig, difflfac, covtype) ==
    [t |-> "dict", ells |-> ells, kobsmax |-> kobsmax, ktmax |-> ktmax,
     capsig |-> capsig, difflfac |-> difflfac, covtype |-> covtype]

\* bool(x) of a Python value.
Truthy(x) ==
    CASE x.t = "none" -> FALSE
      [] x.t = "bool" -> x.v
      [] x.t = "int" -> x.v # 0
      [] x.t = "float" -> x.v # 0
      [] x.t = "str" -> x.v # ""
      [] OTHER -> TRUE

(* ------------------------------ strings ------------------------------- *)

\* sub in s
Contains(s, sub) ==
    \E i \in 1..(Len(s) - Len(sub) + 1) : SubSeq(s, i, i + Len(sub) - 1) = sub

\* s[:n]
Prefix(s, n) == SubSeq(s, 1, IF Len(s) < n THEN Len(s) ELSE n)

EndsWith(s, suf) ==
    /\ Len(s) >= Len(suf)
    /\ SubSeq(s, Len(s) - Len(suf) + 1, Len(s)) = suf

Digits == <<"0", "1", "2", "3", "4", "5", "6", "7", "8", "9">>

RECURSIVE IntStr(_)
\* str(n) and '{:d}'.format(n) of a non-negative int.
IntStr(n) ==
    IF n < 10 THEN Digits[n + 1] ELSE IntStr(n \div 10) \o Digits[(n % 10) + 1]

Pow10(k) == CASE k = 0 -> 1 [] k = 1 -> 10 [] k = 2 -> 100 [] OTHER -> 1000

RECURSIVE ZeroPad(_, _)
\* n written with exactly d digits.
ZeroPad(n, d) ==
    IF d = 0 THEN "" ELSE ZeroPad(n \div 10, d - 1) \o Digits[(n % 10) + 1]

\* '{:.<d>f}'.format(m / 1000) for m >= 0 and d in 1..3: round to d decimals
\* (a tie goes to the even digit), then print the integer part, a point and
\* exactly d decimals.
FormatFixed(m, d) ==
    LET unit == Pow10(3 - d)
        q == m \div unit
        r == m % unit
        scaled == IF 2 * r > unit \/ (2 * r = unit /\ q % 2 = 1) THEN q + 1 ELSE q
    IN  IntStr(scaled \div Pow10(d)) \o "." \o ZeroPad(scaled % Pow10(d), d)

\* str(x) as '{}'.format(x) prints it.
ToStr(x) ==
    CASE x.t = "str" -> x.v
      [] x.t = "int" -> IntStr(x.v)
      [] x.t = "bool" -> (IF x.v THEN "True" ELSE "False")
      [] OTHER -> "None"

\* os.path.join(a, b)
PathJoin(a, b) ==
    IF Len(b) > 0 /\ SubSeq(b, 1, 1) = "/" THEN b
    ELSE IF a = "" \/ SubSeq(a, Len(a), Len(a)) = "/" THEN a \o b
    ELSE a \o "/" \o b

\* The position of the last "/" of s (0 if there is none).
LastSlash(s) ==
    LET P == {i \in 1..Len(s) : SubSeq(s, i, i) = "/"}
    IN  IF P = {} THEN 0 ELSE CHOOSE i \in P : \A j \in P : j <= i

\* The file name of a path: what follows its last "/".
Basename(s) == SubSeq(s, LastSlash(s) + 1, Len(s))

\* The directory of a path: what precedes its last "/".
Dirname(s) == SubSeq(s, 1, LastSlash(s) - 1)

(* --------------------------- the attribute set ------------------------ *)

\* The keys of _defaults, in their order.
AttrNames ==
    <<"fdir", "mockgen", "ftype", "realization", "tracer", "completeness",
      "region", "zrange", "z", "weighting", "nran", "los", "cellsize", "nmesh",
      "boxsize", "rpcut", "thetacut", "directedges", "sculpt_attrs">>

Attrs == {AttrNames[i] : i \in 1..Len(AttrNames)}

\* _defaults
Defaults ==
    [a \in Attrs |->
        CASE a = "fdir" -> StrV("")
          [] a = "mockgen" -> StrV("second")
          [] a = "ftype" -> StrV("power")
          [] a = "realization" -> IntV(0)
          [] a = "tracer" -> StrV("ELG")
          [] a = "completeness" -> BoolV(TRUE)
          [] a = "region" -> StrV("GCcomb")
          [] a = "rpcut" -> FloatV(0)
          [] a = "thetacut" -> FloatV(0)
          [] a = "directedges" -> BoolV(TRUE)
          [] OTHER -> NoneV]

(* ------------------------------ exceptions ---------------------------- *)

NoExc == [type |-> "none", msg |-> ""]

ValueError(msg) == [type |-> "ValueError", msg |-> msg]

NameError(name) == [type |-> "NameError", msg |-> "name '" \o name \o "' is not defined"]

\* The wording of the message depends on the interpreter; only the type is used.
UnboundLocalError(name) ==
    [type |-> "UnboundLocalError",
     msg |-> "local variable '" \o name \o "' referenced before assignment"]

RECURSIVE ListRepr(_, _)
\* The text of list(self._defaults) from its i-th name on.
ListRepr(names, i) ==
    IF i > Len(names) THEN "]"
    ELSE (IF i = 1 THEN "['" ELSE ", '") \o names[i] \o "'" \o ListRepr(names, i + 1)

\* The spec's UnknownAttribute: the ValueError update raises.
IsUnknownAttribute(e) == e.type = "ValueError" /\ Prefix(e.msg, 16) = "Unknown argument"

\* The spec's UnsupportedTracer: the ValueError set_default_config means to raise.
IsUnsupportedTracer(e) == e.type = "ValueError" /\ Prefix(e.msg, 15) = "Unknown tracer:"

(* -------------------------------- update ------------------------------ *)

\* copy.copy(value): a new top-level object holding the same references. A
\* dict value is copied field by field, its 'ells' still naming the same list.
CopyCopy(value) == value

RECURSIVE UpdateFrom(_, _, _)
\* The loop of update from the i-th item of kwargs on.
UpdateFrom(r, kw, i) ==
    IF i > Len(kw) THEN [rec |-> r, exc |-> NoExc]
    ELSE IF kw[i][1] \in Attrs
         THEN UpdateFrom([r EXCEPT ![kw[i][1]] = CopyCopy(kw[i][2])], kw, i + 1)
         ELSE [rec |-> r,
               exc |-> ValueError("Unknown argument " \o kw[i][1] \o "; supports "
                                  \o ListRepr(AttrNames, 1))]

\* A variant of update that validates every key before it sets any.
UpdateValidateFirst(r, kw) ==
    IF \E j \in 1..Len(kw) : kw[j][1] \notin Attrs
    THEN [rec |-> r, exc |-> UpdateFrom(r, kw, 1).exc]
    ELSE UpdateFrom(r, kw, 1)

\* update(**kwargs): the record it leaves and the exception it raises.
Update(r, kw) == UpdateFrom(r, kw, 1)

(* --------------------------- the heap of lists ------------------------ *)

\* The contents of the list objects a value reaches, in place of their names.
ValView(x, h) == IF x.t = "dict" THEN [x EXCEPT !.ells = h[x.ells]] ELSE x

\* A record as a reader sees it, every list replaced by its contents.
View(r, h) == [a \in Attrs |-> ValView(r[a], h)]

KwView(kw, h) == [i \in 1..Len(kw) |-> <<kw[i][1], ValView(kw[i][2], h)>>]

\* The list objects still referenced by the record or by the caller.
Refs(r, c) ==
    {i \in 1..MaxLists : \/ (c.t = "dict" /\ c.ells = i)
                         \/ (r["sculpt_attrs"].t = "dict" /\ r["sculpt_attrs"].ells = i)}

\* Unreferenced list objects are collected.
Gc(h, r, c) == [i \in 1..MaxLists |-> IF i \in Refs(r, c) THEN h[i] ELSE <<>>]

\* Where a new list object is put: a slot the caller does not hold.
FreeList == CHOOSE i \in 1..MaxLists : ~(caller.t = "dict" /\ caller.ells = i)

(* ------------------------------- get_path ----------------------------- *)

Root == "/global/cfs/cdirs/desi/users/mpinon/"

\* opt_attr(name, attr)
OptAttr(name, attr) == IF attr.t = "none" THEN "" ELSE "_" \o name \o ToStr(attr)

\* A variant of cut in which the theta-cut is an if of its own, not an elif.
CutSegmentBoth(r) ==
    (IF Truthy(r["rpcut"]) THEN "_rpcut" \o FormatFixed(r["rpcut"].v, 1) ELSE "")
    \o (IF Truthy(r["thetacut"]) THEN "_thetacut" \o FormatFixed(r["thetacut"].v, 2) ELSE "")

\* cut: the rp-cut if rpcut is truthy, else the theta-cut if thetacut is.
CutSegment(r) ==
    IF Truthy(r["rpcut"]) THEN "_rpcut" \o FormatFixed(r["rpcut"].v, 1)
    ELSE IF Truthy(r["thetacut"]) THEN "_thetacut" \o FormatFixed(r["thetacut"].v, 2)
    ELSE ""

\* The directory get_path stores in self.fdir when fdir is ''.
DerivedFdir(r) ==
    PathJoin(Root \o r["mockgen"].v \o "GenMocksY1",
             IF Contains(r["ftype"].v, "corr") THEN "xi" ELSE "pk")

\* Whether the branches on completeness and mockgen assign comp at all.
CompBound(r) ==
    \/ r["completeness"].t = "str"
    \/ Contains(r["mockgen"].v, "first")
    \/ Contains(r["mockgen"].v, "second")
    \/ Contains(r["mockgen"].v, "cubic")

\* comp
CompSegment(r) ==
    IF r["completeness"].t = "str" THEN r["completeness"].v
    ELSE IF Contains(r["mockgen"].v, "first")
         THEN (IF Truthy(r["completeness"]) THEN "_complete" ELSE "")
    ELSE IF Contains(r["mockgen"].v, "second")
         THEN (IF Truthy(r["completeness"]) THEN "_complete" ELSE "_ffa")
    ELSE ""

\* z: the range if there is one, else the point if there is one.
ZSegment(r) ==
    IF r["zrange"].t # "none"
    THEN "_z" \o FormatFixed(r["zrange"].v[1], 1) \o "-" \o FormatFixed(r["zrange"].v[2], 1)
    ELSE IF r["z"].t # "none" THEN "_z" \o FormatFixed(r["z"].v, 3)
    ELSE ""

\* direct: bool(cut) & self.directedges
DirectSegment(r, cut) ==
    IF cut # "" /\ r["directedges"].v THEN "_directedges_max5000" ELSE ""

RECURSIVE JoinInts(_, _)
\* ''.join([str(i) for i in ells]) from the i-th element on.
JoinInts(l, i) == IF i > Len(l) THEN "" ELSE IntStr(l[i]) \o JoinInts(l, i + 1)

\* sculpt_attrs, read through the heap.
SculptSegment(r, h) ==
    LET d == r["sculpt_attrs"]
    IN  IF d.t = "none" THEN ""
        ELSE "_ells" \o JoinInts(h[d.ells], 1)
             \o "_kobsmax" \o FormatFixed(d.kobsmax, 1)
             \o "_ktmax" \o FormatFixed(d.ktmax, 1)
             \o "_capsig" \o IntStr(d.capsig)
             \o "_difflfac" \o IntStr(d.difflfac)
             \o "_" \o d.covtype \o "cov"

\* fname
FileName(r, h) ==
    LET cut == CutSegment(r)
    IN  r["ftype"].v \o OptAttr("mock", r["realization"]) \o "_" \o r["tracer"].v
        \o CompSegment(r) \o OptAttr("", r["region"]) \o ZSegment(r)
        \o (IF r["weighting"].t # "none" THEN r["weighting"].v ELSE "")
        \o OptAttr("nran", r["nran"]) \o OptAttr("los", r["los"])
        \o OptAttr("cellsize", r["cellsize"]) \o OptAttr("nmesh", r["nmesh"])
        \o OptAttr("boxsize", r["boxsize"])
        \o cut \o DirectSegment(r, cut) \o SculptSegment(r, h) \o ".npy"

\* The record get_path leaves once update(**kwargs) has succeeded on r: fdir
\* is assigned on self when it is ''.
StoreFdir(r) ==
    IF r["fdir"].v = "" THEN [r EXCEPT !["fdir"] = StrV(DerivedFdir(r))] ELSE r

\* get_path(**kwargs) on record r: the record left, the exception, the path.
GetPathResult(r, kw, h) ==
    LET u == Update(r, kw)
        r2 == StoreFdir(u.rec)
    IN  IF u.exc # NoExc THEN [rec |-> u.rec, exc |-> u.exc, out |-> ""]
        ELSE IF ~CompBound(r2) THEN [rec |-> r2, exc |-> UnboundLocalError("comp"), out |-> ""]
        ELSE [rec |-> r2, exc |-> NoExc, out |-> PathJoin(r2["fdir"].v, FileName(r2, h))]

(* --------------------------- set_default_config ------------------------ *)

ZRangeELG == TupleV(800, 1600)

\* The branch for mockgen == 'first'.
FirstPreset(r) ==
    IF Prefix(r["tracer"].v, 3) = "ELG"
    THEN IF Contains(r["ftype"].v, "corr")
         THEN [opts |-> <<<<"tracer", StrV("ELG")>>, <<"zrange", ZRangeELG>>,
                          <<"fdir", StrV(PathJoin(Root \o "firstGenMocksY1", "xi"))>>>>,
               exc |-> NoExc, newlist |-> FALSE]
         ELSE [opts |-> <<<<"tracer", StrV("ELG")>>, <<"zrange", ZRangeELG>>,
                          <<"directedges", BoolV(FALSE)>>,
                          <<"fdir", StrV(PathJoin(Root \o "firstGenMocksY1", "pk"))>>>>,
               exc |-> NoExc, newlist |-> FALSE]
    \* raise ValueError('Unknown tracer: {}'.format(tracer)): the name tracer
    \* is bound nowhere, so evaluating the argument raises NameError.
    ELSE [opts |-> <<>>, exc |-> NameError("tracer"), newlist |-> FALSE]

\* A variant of the 'second' branch that takes the options of the 'first' one.
SecondPresetAsFirst(r, l) == FirstPreset(r)

\* The branch for mockgen == 'second'; l names the list of the dict literal.
SecondPreset(r, l) ==
    IF Prefix(r["tracer"].v, 3) = "ELG"
    THEN IF Contains(r["ftype"].v, "corr")
         THEN [opts |-> <<<<"tracer", StrV("ELG_LOP")>>, <<"zrange", ZRangeELG>>,
                          <<"fdir", StrV(PathJoin(Root \o "secondGenMocksY1", "xi"))>>>>,
               exc |-> NoExc, newlist |-> FALSE]
         ELSE IF Contains(r["ftype"].v, "sculpt")
         THEN [opts |-> <<<<"tracer", StrV("ELG_LOP")>>, <<"zrange", ZRangeELG>>,
                          <<"cellsize", IntV(4)>>, <<"directedges", BoolV(TRUE)>>,
                          <<"sculpt_attrs", DictV(l, 400, 500, 5, 10, "analytic")>>,
                          <<"fdir", StrV(PathJoin(Root \o "secondGenMocksY1", "pk"))>>>>,
               exc |-> NoExc, newlist |-> TRUE]
         ELSE [opts |-> <<<<"tracer", StrV("ELG_LOP")>>, <<"zrange", ZRangeELG>>,
                          <<"cellsize", IntV(4)>>, <<"directedges", BoolV(TRUE)>>,
                          <<"fdir", StrV(PathJoin(Root \o "secondGenMocksY1", "pk"))>>>>,
               exc |-> NoExc, newlist |-> FALSE]
    ELSE [opts |-> <<>>, exc |-> NameError("tracer"), newlist |-> FALSE]

\* A variant of the 'cubic' branch that gives every z the options of z = 0.95.
CubicPresetLowZ(r) ==
    IF Prefix(r["tracer"].v, 3) = "ELG"
    THEN [opts |-> <<<<"tracer", StrV("ELG")>>, <<"region", NoneV>>,
                     <<"zrange", NoneV>>, <<"z", FloatV(950)>>,
                     <<"cellsize", IntV(6)>>, <<"boxsize", IntV(2000)>>,
                     <<"fdir", StrV(PathJoin(Root \o "cubicSecondGenMocks", "pk"))>>>>,
          exc |-> NoExc, newlist |-> FALSE]
    ELSE [opts |-> <<>>, exc |-> NameError("tracer"), newlist |-> FALSE]

\* The branch for mockgen == 'cubic': default_options is assigned only for
\* z in {None, 1.1, 0.95}; for any other z the line that stores fdir in it
\* finds it unbound.
CubicPreset(r) ==
    IF Prefix(r["tracer"].v, 3) = "ELG"
    THEN IF r["z"] = FloatV(950)
         THEN [opts |-> <<<<"tracer", StrV("ELG")>>, <<"region", NoneV>>,
                          <<"zrange", NoneV>>, <<"z", r["z"]>>,
                          <<"cellsize", IntV(6)>>, <<"boxsize", IntV(2000)>>,
                          <<"fdir", StrV(PathJoin(Root \o "cubicSecondGenMocks", "pk"))>>>>,
               exc |-> NoExc, newlist |-> FALSE]
         ELSE IF r["z"] = FloatV(1100) \/ r["z"] = NoneV
         THEN [opts |-> <<<<"tracer", StrV("ELG")>>, <<"region", NoneV>>,
                          <<"zrange", NoneV>>, <<"z", FloatV(1100)>>,
                          <<"nmesh", IntV(2048)>>, <<"boxsize", IntV(2000)>>,
                          <<"fdir", StrV(PathJoin(Root \o "cubicSecondGenMocks", "pk"))>>>>,
               exc |-> NoExc, newlist |-> FALSE]
         ELSE [opts |-> <<>>, exc |-> UnboundLocalError("default_options"),
               newlist |-> FALSE]
    ELSE [opts |-> <<>>, exc |-> NameError("tracer"), newlist |-> FALSE]

\* default_options as the three if-blocks leave it; with none of them taken
\* the final update(**default_options) finds it unbound.
DefaultOptions(r, l) ==
    IF r["mockgen"].v = "first" THEN FirstPreset(r)
    ELSE IF r["mockgen"].v = "second" THEN SecondPreset(r, l)
    ELSE IF r["mockgen"].v = "cubic" THEN CubicPreset(r)
    ELSE [opts |-> <<>>, exc |-> UnboundLocalError("default_options"), newlist |-> FALSE]

\* set_default_config(**kwargs) on record r: the record left, the exception,
\* and whether the list named l was created.
SetDefaultConfigResult(r, kw, l) ==
    LET u == Update(r, kw)
        d == DefaultOptions(u.rec, l)
        m == Update(u.rec, d.opts)
    IN  IF u.exc # NoExc THEN [rec |-> u.rec, exc |-> u.exc, newlist |-> FALSE]
        ELSE IF d.exc # NoExc THEN [rec |-> u.rec, exc |-> d.exc, newlist |-> FALSE]
        ELSE [rec |-> m.rec, exc |-> m.exc, newlist |-> d.newlist]

(* ------------------------------- the inputs ---------------------------- *)

Generations == {"first", "second", "cubic"}

Tracers == {"ELG", "ELG_LOP", "LRG"}

FileTypes == {"power", "corr", "wmatrix_smooth_sculpt"}

\* The keyword arguments the caller passes to update.
UpdateInputs ==
    << <<<<"z", FloatV(1100)>>>>,
       <<<<"z", FloatV(950)>>>>,
       <<<<"z", FloatV(500)>>>>,
       <<<<"realization", IntV(3)>>, <<"region", StrV("NGC")>>>>,
       <<<<"rpcut", FloatV(2500)>>>>,
       <<<<"thetacut", FloatV(50)>>>>,
       <<<<"rpcut", FloatV(2500)>>, <<"thetacut", FloatV(50)>>>>,
       <<<<"completeness", BoolV(FALSE)>>>>,
       <<<<"completeness", StrV("_altmtl")>>, <<"directedges", BoolV(FALSE)>>>>,
       <<<<"sculpt_attrs", caller>>>>,
       <<<<"foo", IntV(1)>>, <<"rpcut", FloatV(2500)>>>>,
       <<<<"rpcut", FloatV(2500)>>, <<"foo", IntV(1)>>, <<"thetacut", FloatV(50)>>>>,
       <<<<"region", StrV("NGC")>>, <<"realization", IntV(3)>>, <<"foo", IntV(1)>>>> >>

\* The keyword arguments the caller passes to get_path.
GetPathInputs ==
    << <<>>,
       <<<<"realization", NoneV>>, <<"weighting", StrV("_default_FKP")>>>> >>

\* The keyword arguments the caller passes to set_default_config.
SetDefaultConfigInputs ==
    << <<>>,
       <<<<"realization", IntV(3)>>, <<"region", StrV("NGC")>>>> >>

(* ----------------------------- the state machine ----------------------- *)

\* One entry of the log: the call, the record before and after as a reader
\* sees it, the exception raised and the value returned.
Entry(op, kw, r2, h2, exc, out) ==
    [op |-> op, kw |-> KwView(kw, heap), pre |-> View(rec, heap),
     post |-> View(r2, h2), exc |-> exc, out |-> out]

\* __init__(**kwargs): the defaults, then update(**kwargs).
Construct(kw) == Update(Defaults, kw).rec

Init ==
    /\ \E g \in Generations, tr \in Tracers, f \in FileTypes :
          rec = Construct(<<<<"mockgen", StrV(g)>>, <<"tracer", StrV(tr)>>,
                            <<"ftype", StrV(f)>>>>)
    /\ caller = DictV(1, 400, 500, 5, 10, "analytic")
    /\ heap = [i \in 1..MaxLists |-> IF i = 1 THEN <<0, 2, 4>> ELSE <<>>]
    /\ log = <<>>

DoUpdate ==
    /\ Len(log) < MaxCalls
    /\ \E i \in 1..Len(UpdateInputs) :
         LET kw == UpdateInputs[i]
             u == Update(rec, kw)
             h2 == Gc(heap, u.rec, caller)
         IN  /\ rec' = u.rec
             /\ heap' = h2
             /\ log' = Append(log, Entry("update", kw, u.rec, h2, u.exc, ""))
             /\ UNCHANGED caller

DoGetPath ==
    /\ Len(log) < MaxCalls
    /\ \E i \in 1..Len(GetPathInputs) :
         LET kw == GetPathInputs[i]
             g == GetPathResult(rec, kw, heap)
             h2 == Gc(heap, g.rec, caller)
         IN  /\ rec' = g.rec
             /\ heap' = h2
             /\ log' = Append(log, Entry("get_path", kw, g.rec, h2, g.exc, g.out))
             /\ UNCHANGED caller

DoSetDefaultConfig ==
    /\ Len(log) < MaxCalls
    /\ \E i \in 1..Len(SetDefaultConfigInputs) :
         LET kw == SetDefaultConfigInputs[i]
             l == FreeList
             s == SetDefaultConfigResult(rec, kw, l)
             h1 == IF s.newlist THEN [heap EXCEPT ![l] = <<0, 2, 4>>] ELSE heap
             h2 == Gc(h1, s.rec, caller)
         IN  /\ rec' = s.rec
             /\ heap' = h2
             /\ log' = Append(log, Entry("set_default_config", kw, s.rec, h2, s.exc, ""))
             /\ UNCHANGED caller

\* The caller appends to the list inside the dict it owns: d['ells'].append(6).
CallerMutateNested ==
    /\ Len(log) < MaxCalls
    /\ Len(heap[caller.ells]) < MaxEllsLen
    /\ heap' = [heap EXCEPT ![caller.ells] = Append(@, 6)]
    /\ log' = Append(log, Entry("caller_mutate_nested", <<>>, rec, heap', NoExc, ""))
    /\ UNCHANGED <<rec, caller>>

\* The caller rebinds a key of the dict it owns: d['covtype'] = 'mock'.
CallerMutateTop ==
    /\ Len(log) < MaxCalls
    /\ caller.covtype = "analytic"
    /\ caller' = [caller EXCEPT !.covtype = "mock"]
    /\ log' = Append(log, Entry("caller_mutate_top", <<>>, rec, heap, NoExc, ""))
    /\ UNCHANGED <<rec, heap>>

Next ==
    \/ DoUpdate
    \/ DoGetPath
    \/ DoSetDefaultConfig
    \/ CallerMutateNested
    \/ CallerMutateTop

Spec == Init /\ [][Next]_vars

(* ------------------------------ the claims ---------------------------- *)

Calls == 1..Len(log)

\* The record a call works on once its own update(**kwargs) has run.
AfterOverrides(e) == Update(e.pre, e.kw).rec

OverridesValid(e) == \A j \in 1..Len(e.kw) : e.kw[j][1] \in Attrs

\* The position of the first key outside the attribute set (0 if there is none).
FirstUnknown(kw) ==
    IF \E j \in 1..Len(kw) : kw[j][1] \notin Attrs
    THEN CHOOSE j \in 1..Len(kw) :
            /\ kw[j][1] \notin Attrs
            /\ \A k \in 1..(j - 1) : kw[k][1] \in Attrs
    ELSE 0

\* C1 as stated: an update whose mapping holds a key outside the attribute
\* set fails with UnknownAttribute and leaves every attribute as it was.
C1_UpdateUnknownKeyChangesNothing ==
    \A i \in Calls :
        (log[i].op = "update" /\ FirstUnknown(log[i].kw) > 0)
        => /\ IsUnknownAttribute(log[i].exc)
           /\ log[i].post = log[i].pre

\* C1 as amended: such an update fails with UnknownAttribute naming the first
\* unknown key; the keys that precede it in the mapping are applied, the keys
\* that follow it are not, and every other attribute is as it was.
C1_UpdateUnknownKeyAppliesPrefix ==
    \A i \in Calls :
        (log[i].op = "update" /\ FirstUnknown(log[i].kw) > 0)
        => LET kw == log[i].kw
               u == FirstUnknown(kw)
           IN  /\ IsUnknownAttribute(log[i].exc)
               /\ Contains(log[i].exc.msg, "Unknown argument " \o kw[u][1] \o ";")
               /\ \A a \in Attrs :
                    IF \E j \in 1..(u - 1) : kw[j][1] = a
                    THEN \E j \in 1..(u - 1) : kw[j][1] = a /\ log[i].post[a] = kw[j][2]
                    ELSE log[i].post[a] = log[i].pre[a]

\* A failed update that has applied a key preceding the unknown one.
C1_Witness ==
    \E i \in Calls :
        /\ log[i].op = "update"
        /\ FirstUnknown(log[i].kw) > 1
        /\ Len(log[i].kw) > FirstUnknown(log[i].kw)
        /\ log[i].exc # NoExc
        /\ log[i].post # log[i].pre

\* C2: after a successful update the record holds the supplied value of each
\* supplied key, and no later mutation of the caller's own value, nested
\* parts included, changes what the record holds.
C2_UpdateStoresIndependentCopies ==
    \A i \in Calls :
        /\ (log[i].op = "update" /\ log[i].exc = NoExc)
           => \A j \in 1..Len(log[i].kw) : log[i].post[log[i].kw[j][1]] = log[i].kw[j][2]
        /\ log[i].op \in {"caller_mutate_nested", "caller_mutate_top"}
           => log[i].post = log[i].pre

\* C3: set_default_config on a record of generation first, second or cubic
\* whose tracer does not begin with "ELG" fails with UnsupportedTracer.
C3_NonELGTracerRaisesUnsupportedTracer ==
    \A i \in Calls :
        (/\ log[i].op = "set_default_config"
         /\ OverridesValid(log[i])
         /\ AfterOverrides(log[i])["mockgen"].v \in Generations
         /\ Prefix(AfterOverrides(log[i])["tracer"].v, 3) # "ELG")
        => IsUnsupportedTracer(log[i].exc)

\* C4: get_path without overrides leaves every attribute, fdir included, as
\* it was.
C4_GetPathIsPureRead ==
    \A i \in Calls :
        (log[i].op = "get_path" /\ log[i].kw = <<>>) => log[i].post = log[i].pre

\* The precondition of C5 on the record set_default_config works on.
C5_Pre(m) ==
    /\ m["mockgen"].v = "second"
    /\ Prefix(m["tracer"].v, 3) = "ELG"
    /\ m["ftype"].v = "power"
    /\ m["completeness"] = BoolV(TRUE)
    /\ m["realization"].t = "int"
    /\ m["region"].t = "str"
    /\ \A a \in Attrs \ {"mockgen", "tracer", "ftype", "completeness", "realization", "region"} :
          m[a] = Defaults[a]

\* C5: on a second-generation record with an ELG-prefixed tracer, file type
\* "power", completeness true, realization r, region g and every other
\* attribute at its default, set_default_config followed by get_path gives
\* the file name power_mock{r}_ELG_LOP_complete_{g}_z0.8-1.6_cellsize4.npy.
C5_SecondGenPowerFileName ==
    \A i \in Calls :
        (/\ i + 1 \in Calls
         /\ log[i].op = "set_default_config"
         /\ OverridesValid(log[i])
         /\ C5_Pre(AfterOverrides(log[i]))
         /\ log[i + 1].op = "get_path"
         /\ log[i + 1].kw = <<>>)
        => LET m == AfterOverrides(log[i])
           IN  /\ log[i].exc = NoExc
               /\ log[i + 1].exc = NoExc
               /\ Basename(log[i + 1].out) =
                     "power_mock" \o IntStr(m["realization"].v) \o "_ELG_LOP_complete_"
                     \o m["region"].v \o "_z0.8-1.6_cellsize4.npy"

\* The example of C5, r = 3 and g = "NGC", has run and given its file name.
C5_Witness ==
    \E i \in Calls :
        /\ i + 1 \in Calls
        /\ log[i].op = "set_default_config"
        /\ C5_Pre(AfterOverrides(log[i]))
        /\ AfterOverrides(log[i])["realization"] = IntV(3)
        /\ AfterOverrides(log[i])["region"] = StrV("NGC")
        /\ log[i + 1].op = "get_path"
        /\ log[i + 1].kw = <<>>
        /\ Basename(log[i + 1].out) = "power_mock3_ELG_LOP_complete_NGC_z0.8-1.6_cellsize4.npy"

\* The precondition of C6 on the record set_default_config works on.
C6_Pre(m) ==
    /\ m["mockgen"].v = "cubic"
    /\ Prefix(m["tracer"].v, 3) = "ELG"
    /\ (m["z"] = NoneV \/ m["z"] = FloatV(1100))

\* C6: set_default_config on a cubic record with an ELG-prefixed tracer and
\* z absent or 1.1 leaves nmesh = 2048, boxsize = 2000, region None,
\* zrange None and z = 1.1.
C6_CubicPresetValues ==
    \A i \in Calls :
        (/\ log[i].op = "set_default_config"
         /\ OverridesValid(log[i])
         /\ C6_Pre(AfterOverrides(log[i])))
        => /\ log[i].exc = NoExc
           /\ log[i].post["nmesh"] = IntV(2048)
           /\ log[i].post["boxsize"] = IntV(2000)
           /\ log[i].post["region"] = NoneV
           /\ log[i].post["zrange"] = NoneV
           /\ log[i].post["z"] = FloatV(1100)

\* set_default_config has run on a cubic ELG record with z absent and a
\* region set, and has left nmesh = 2048.
C6_Witness ==
    \E i \in Calls :
        /\ log[i].op = "set_default_config"
        /\ C6_Pre(AfterOverrides(log[i]))
        /\ AfterOverrides(log[i])["z"] = NoneV
        /\ AfterOverrides(log[i])["region"] # NoneV
        /\ log[i].post["nmesh"] = IntV(2048)

IsDigit(c) == \E k \in 1..Len(Digits) : Digits[k] = c

\* The first position of sub in s (0 if there is none).
IndexOf(s, sub) ==
    IF Contains(s, sub)
    THEN CHOOSE i \in 1..(Len(s) - Len(sub) + 1) :
            /\ SubSeq(s, i, i + Len(sub) - 1) = sub
            /\ \A j \in 1..(i - 1) : SubSeq(s, j, j + Len(sub) - 1) # sub
    ELSE 0

RECURSIVE DigitRun(_, _)
\* How many digits s holds in a row from position i on.
DigitRun(s, i) ==
    IF i > Len(s) \/ ~IsDigit(SubSeq(s, i, i)) THEN 0 ELSE 1 + DigitRun(s, i + 1)

\* The number of decimals of the number that follows tag in s: digits, a
\* point, digits (-1 if no such number follows).
DecimalsAfter(s, tag) ==
    LET p == IndexOf(s, tag) + Len(tag)
        n == DigitRun(s, p)
    IN  IF IndexOf(s, tag) = 0 \/ n = 0 \/ p + n > Len(s) \/ SubSeq(s, p + n, p + n) # "."
        THEN -1
        ELSE DigitRun(s, p + n + 1)

\* C7: the file name get_path gives never holds both cut segments: with
\* rpcut nonzero it holds the rp-cut with 1 decimal and no theta-cut, with
\* rpcut zero and thetacut nonzero the theta-cut with 2 decimals and no
\* rp-cut, with both zero neither.
C7_AtMostOneCutSegment ==
    \A i \in Calls :
        (log[i].op = "get_path" /\ log[i].exc = NoExc)
        => LET f == Basename(log[i].out)
               rp == log[i].post["rpcut"].v
               th == log[i].post["thetacut"].v
           IN  /\ ~(Contains(f, "_rpcut") /\ Contains(f, "_thetacut"))
               /\ rp # 0 => (DecimalsAfter(f, "_rpcut") = 1 /\ ~Contains(f, "_thetacut"))
               /\ (rp = 0 /\ th # 0)
                  => (DecimalsAfter(f, "_thetacut") = 2 /\ ~Contains(f, "_rpcut"))
               /\ (rp = 0 /\ th = 0)
                  => (~Contains(f, "_rpcut") /\ ~Contains(f, "_thetacut"))

\* get_path has given a path for a record with rpcut and thetacut both nonzero.
C7_Witness ==
    \E i \in Calls :
        /\ log[i].op = "get_path"
        /\ log[i].exc = NoExc
        /\ log[i].post["rpcut"].v # 0
        /\ log[i].post["thetacut"].v # 0
        /\ Contains(log[i].out, "_rpcut2.5")

\* C8, the case it spells out: on a record of generation first, second or
\* cubic with an ELG-prefixed tracer, set_default_config succeeds whatever
\* the file type and z, and leaves a preset with its fdir merged.
C8_ResolveDefaultsSucceedsForELG ==
    \A i \in Calls :
        (/\ log[i].op = "set_default_config"
         /\ OverridesValid(log[i])
         /\ AfterOverrides(log[i])["mockgen"].v \in Generations
         /\ Prefix(AfterOverrides(log[i])["tracer"].v, 3) = "ELG")
        => /\ log[i].exc = NoExc
           /\ (EndsWith(log[i].post["fdir"].v, "/xi") \/ EndsWith(log[i].post["fdir"].v, "/pk"))
           /\ Prefix(log[i].post["tracer"].v, 3) = "ELG"

\* C9: after a successful set_default_config, fdir ends in "xi" exactly when
\* ftype contains "corr", and in "pk" otherwise.
C9_SubdirFollowsFileType ==
    \A i \in Calls :
        (log[i].op = "set_default_config" /\ log[i].exc = NoExc)
        => IF Contains(log[i].post["ftype"].v, "corr")
           THEN EndsWith(log[i].post["fdir"].v, "/xi")
           ELSE EndsWith(log[i].post["fdir"].v, "/pk")

\* C10: the directory get_path derives for a record with fdir '' is the
\* fdir set_default_config sets for a record of the same generation and
\* file type.
C10_DerivedDirEqualsPresetDir ==
    \A i \in Calls : \A j \in Calls :
        (/\ log[i].op = "get_path"
         /\ log[i].exc = NoExc
         /\ AfterOverrides(log[i])["fdir"].v = ""
         /\ log[j].op = "set_default_config"
         /\ log[j].exc = NoExc
         /\ log[j].post["mockgen"] = log[i].post["mockgen"]
         /\ log[j].post["ftype"] = log[i].post["ftype"])
        => /\ log[i].post["fdir"] = log[j].post["fdir"]
           /\ Dirname(log[i].out) = log[j].post["fdir"].v

====
